---------------------------- MODULE Spec2Model ----------------------------
(***************************************************************************)
(* A model of tracker.py: the price normaliser (parse_price_value), the    *)
(* change detector (detect_changes) and the passes of run_tracker over the *)
(* configured stores, with the snapshot file it loads and saves.           *)
(*                                                                         *)
(* Strings that the code inspects character by character (prices) are      *)
(* sequences of one-character strings.  Titles are opaque strings.         *)
(*                                                                         *)
(* The browser is the environment: a store's page is a sequence of cards   *)
(* (or JSON products), each with the title and the price text that the     *)
(* selectors and extract_price_dom obtain from it, and any call on the     *)
(* page may raise.  Python dicts are functions, lists are sequences.       *)
(***************************************************************************)
EXTENDS Integers, Sequences, FiniteSets, TLC

(***************************************************************************)
(* Bounds of the model.                                                    *)
(***************************************************************************)
\* longest listing list handed to detect_changes in SpecDetect
MaxListings == 2
\* number of passes of the outer loop (while True: run_tracker()) that run to
\* their end
MaxRuns == 2
\* number of stores whose scrape raises an exception in one pass
MaxFailures == 1

(***************************************************************************)
(* Values.                                                                 *)
(***************************************************************************)
\* Python's None.  Every string of the model is a sequence of ONE-character
\* strings, so this value is different from every string.
None == <<"None">>

\* parse_price_value's "return None": the absent number.
NoValue == -1

Str900   == <<"9", "0", "0", " ", "k", "r">>
Str1000  == <<"1", "0", "0", "0", " ", "k", "r">>
Str1000b == <<"1", " ", "0", "0", "0", ":", "-">>
Str500   == <<"5", "0", "0", " ", "k", "r">>
StrNoDigits == <<"k", "r">>

Digits == {"0", "1", "2", "3", "4", "5", "6", "7", "8", "9"}

\* c.isdigit() on the characters of the model's alphabet
isdigit(c) == c \in Digits

\* int(c) of one digit character
DigitVal(c) ==
  CASE c = "0" -> 0 [] c = "1" -> 1 [] c = "2" -> 2 [] c = "3" -> 3
    [] c = "4" -> 4 [] c = "5" -> 5 [] c = "6" -> 6 [] c = "7" -> 7
    [] c = "8" -> 8 [] c = "9" -> 9

\* float(digits) of a non-empty sequence of digit characters
RECURSIVE float(_)
float(digits) ==
  IF digits = <<>> THEN 0
  ELSE 10 * float(SubSeq(digits, 1, Len(digits) - 1)) + DigitVal(digits[Len(digits)])

\* parse_price_value with a slip: a string without digits counts as zero
parse_price_value_Zero(price_str) ==
  IF price_str = None \/ price_str = <<>> THEN 0
  ELSE float(SelectSeq(price_str, isdigit))

\* parse_price_value(price_str)
parse_price_value(price_str) ==
  IF price_str = None \/ price_str = <<>> THEN NoValue
  ELSE LET digits == SelectSeq(price_str, isdigit)
       IN  IF digits # <<>> THEN float(digits) ELSE NoValue

(***************************************************************************)
(* detect_changes.                                                         *)
(***************************************************************************)
\* dict.get(key) on a record: the field, or None when the key is missing
Get(rec, key) == IF key \in DOMAIN rec THEN rec[key] ELSE None

\* {item["title"] for item in current_listings}
TitlesOf(listings) == {listings[i].title : i \in 1..Len(listings)}

\* ItemChanges with a slip: the two comparisons are swapped
ItemChanges_Swapped(item, prev_store_data) ==
  LET title == item.title
      price == item.price
  IN  IF title \notin DOMAIN prev_store_data
      THEN << [type |-> "new", title |-> title, price |-> price] >>
      ELSE LET old_price_str == Get(prev_store_data[title], "price")
               old_val == parse_price_value(old_price_str)
               new_val == parse_price_value(price)
           IN  IF old_val # NoValue /\ new_val # NoValue
               THEN IF new_val > old_val
                    THEN << [type |-> "price_drop", title |-> title,
                             old_price |-> old_price_str, new_price |-> price] >>
                    ELSE IF new_val < old_val
                    THEN << [type |-> "price_up", title |-> title,
                             old_price |-> old_price_str, new_price |-> price] >>
                    ELSE << >>
               ELSE << >>

\* the body of the loop over current_listings: the records one item appends
ItemChanges(item, prev_store_data) ==
  LET title == item.title
      price == item.price
  IN  IF title \notin DOMAIN prev_store_data
      THEN << [type |-> "new", title |-> title, price |-> price] >>
      ELSE LET old_price_str == Get(prev_store_data[title], "price")
               old_val == parse_price_value(old_price_str)
               new_val == parse_price_value(price)
           IN  IF old_val # NoValue /\ new_val # NoValue
               THEN IF new_val < old_val
                    THEN << [type |-> "price_drop", title |-> title,
                             old_price |-> old_price_str, new_price |-> price] >>
                    ELSE IF new_val > old_val
                    THEN << [type |-> "price_up", title |-> title,
                             old_price |-> old_price_str, new_price |-> price] >>
                    ELSE << >>
               ELSE << >>

RECURSIVE ListingChanges(_, _)
ListingChanges(current_listings, prev_store_data) ==
  IF current_listings = <<>> THEN <<>>
  ELSE ItemChanges(Head(current_listings), prev_store_data)
         \o ListingChanges(Tail(current_listings), prev_store_data)

\* the orders in which Python may iterate the set prev_titles - current_titles
Orderings(S) ==
  {s \in [1..Cardinality(S) -> S] : \A i, j \in DOMAIN s : i # j => s[i] # s[j]}

\* GoneOrders with a slip: every previous title is reported gone
GoneOrders_AllPrevious(current_listings, prev_store_data) ==
  Orderings(DOMAIN prev_store_data)

GoneOrders(current_listings, prev_store_data) ==
  Orderings(DOMAIN prev_store_data \ TitlesOf(current_listings))

\* detect_changes with a slip: nothing is reported against an empty snapshot
detect_changes_QuietWhenEmpty(current_listings, prev_store_data, gone_order) ==
  IF DOMAIN prev_store_data = {} THEN <<>>
  ELSE ListingChanges(current_listings, prev_store_data)
         \o [i \in 1..Len(gone_order) |-> [type |-> "gone", title |-> gone_order[i]]]

\* detect_changes(current_listings, prev_store_data); gone_order is the order
\* in which the set difference is iterated
detect_changes(current_listings, prev_store_data, gone_order) ==
  ListingChanges(current_listings, prev_store_data)
    \o [i \in 1..Len(gone_order) |-> [type |-> "gone", title |-> gone_order[i]]]


(***************************************************************************)
(* State.                                                                  *)
(***************************************************************************)
VARIABLES
  \* a call of detect_changes on its own (SpecDetect)
  dc_current,         \* the argument current_listings
  dc_previous,        \* the argument prev_store_data
  dc_changes,         \* the list returned
  dc_pc,              \* "off" | "call" | "done"
  \* the process running run_tracker in a loop (Spec)
  disk,               \* the file DB_FILE
  db,                 \* run_tracker's local db
  pc,                 \* "idle" | "stores" | "notify" | "save" | "crashed"
  store_i,            \* position of the loop over STORES (1-based)
  all_embeds,         \* run_tracker's local all_embeds
  has_urgent_change,  \* run_tracker's local has_urgent_change
  send_this_run,      \* run_tracker's local send_this_run
  now,                \* time.time(): a logical clock, one tick per pass that saves
  posted,             \* what send_summary did in this pass
  writes,             \* number of times this pass opened DB_FILE for writing
  loaded,             \* the db this pass started from
  failed,             \* the stores whose scrape raised an exception in this pass
  committed,          \* the db as the last pass that ran to its end left it
  last_scrape         \* the listings of a pass, noted when it is about to save

dc_vars  == <<dc_current, dc_previous, dc_changes, dc_pc>>
run_vars == <<disk, db, pc, store_i, all_embeds, has_urgent_change, send_this_run,
              now, posted, writes, loaded, failed, committed, last_scrape>>
vars     == <<dc_vars, run_vars>>

(***************************************************************************)
(* SpecDetect: detect_changes applied to inputs drawn from bounded sets.   *)
(***************************************************************************)
DetectTitles == {"X", "Y"}
DetectPrices == {None, StrNoDigits, Str900, Str1000, Str1000b, Str500}

DetectListings == [title : DetectTitles, price : DetectPrices]

DetectCurrentInputs == UNION {[1..n -> DetectListings] : n \in 0..MaxListings}

\* a record of a previous snapshot; a malformed one has no "price" key
DetectPrevRecords ==
  {[price |-> p, first_seen |-> 1] : p \in DetectPrices} \cup {[first_seen |-> 1]}

DetectPrevInputs == UNION {[T -> DetectPrevRecords] : T \in SUBSET DetectTitles}

DetectOff ==
  /\ dc_current = <<>>
  /\ dc_previous = <<>>
  /\ dc_changes = <<>>
  /\ dc_pc = "off"

DetectCall ==
  /\ dc_pc = "call"
  /\ \E gone_order \in GoneOrders(dc_current, dc_previous) :
       dc_changes' = detect_changes(dc_current, dc_previous, gone_order)
  /\ dc_pc' = "done"
  /\ UNCHANGED <<dc_current, dc_previous, run_vars>>

(***************************************************************************)
(* Configuration (module level of tracker.py).                             *)
(***************************************************************************)
SILENT_IF_NO_CHANGES == TRUE

\* the keys of STORES, in the order the dict literal gives them
STORES == <<"inet", "elgiganten", "komplett", "webhallen">>

\* info.get("scrape_method", "dom")
scrape_method(store) == IF store = "komplett" THEN "json" ELSE "dom"

\* info.get("title_filter", "5090")
title_filter(store) == IF store = "webhallen" THEN "GeForce RTX 5090" ELSE "5090"

\* the names parse_komplett_json skips (complete PCs and laptops)
SkipKeywords == {"Komplett-PC", "Predator", "Legion", "OMEN", "Zephyrus"}

\* Python's "needle in title" on the titles of the model: "X" stands for a
\* card title that holds both title filters and no skipped keyword, "Z" for
\* one that holds none of them.
Contains(needle, title) == title = "X" /\ needle \in {"5090", "GeForce RTX 5090"}

(***************************************************************************)
(* What a store's page shows: a sequence of cards (DOM) or products        *)
(* (preloaded JSON), each a title and a price text.                        *)
(***************************************************************************)
Card(title, price) == [title |-> title, price |-> price]

PageEmpty == <<>>
PageOne   == <<Card("X", Str1000b)>>
\* one title shown twice, at two prices
PageTwice == <<Card("X", Str900), Card("X", Str1000b)>>
PageOther == <<Card("Z", Str900)>>

RunPages == {PageEmpty, PageOne, PageTwice, PageOther}

(***************************************************************************)
(* Scraping.                                                               *)
(***************************************************************************)
\* s.replace(":-", " kr")
RECURSIVE ReplaceColonDash(_)
ReplaceColonDash(s) ==
  IF Len(s) = 0 THEN s
  ELSE IF Len(s) >= 2 /\ s[1] = ":" /\ s[2] = "-"
       THEN <<" ", "k", "r">> \o ReplaceColonDash(SubSeq(s, 3, Len(s)))
       ELSE <<s[1]>> \o ReplaceColonDash(Tail(s))

\* s.strip()
RECURSIVE strip(_)
strip(s) ==
  IF Len(s) = 0 THEN s
  ELSE IF s[1] = " " THEN strip(Tail(s))
  ELSE IF s[Len(s)] = " " THEN strip(SubSeq(s, 1, Len(s) - 1))
  ELSE s

\* parse_komplett_json: what it does with a product's listPrice (the model's
\* alphabet has the plain space only, so that the replacement of the
\* no-break space by a space changes nothing)
ListPrice(price_str) ==
  IF price_str = None \/ price_str = <<>> THEN price_str
  ELSE strip(ReplaceColonDash(price_str))

\* parse_komplett_json: the loop over products, appending to listings
RECURSIVE JsonLoop(_, _, _)
JsonLoop(products, filter, listings) ==
  IF products = <<>> THEN listings
  ELSE LET p    == Head(products)
           name == p.title
           skip == \/ ~Contains(filter, name)
                   \/ \E kw \in SkipKeywords : Contains(kw, name)
       IN  JsonLoop(Tail(products), filter,
                    IF skip THEN listings
                    ELSE Append(listings, Card(name, ListPrice(p.price))))

\* parse_komplett_json(page_html, title_filter) on the products it reaches
parse_komplett_json(products, filter) == JsonLoop(products, filter, <<>>)

\* run_tracker: the loop over the DOM cards, with seen_titles
RECURSIVE DomLoop(_, _, _, _)
DomLoop(cards, filter, seen_titles, current_listings) ==
  IF cards = <<>> THEN current_listings
  ELSE LET card == Head(cards)
           take == Contains(filter, card.title) /\ card.title \notin seen_titles
       IN  DomLoop(Tail(cards), filter,
                   IF take THEN seen_titles \cup {card.title} ELSE seen_titles,
                   IF take THEN Append(current_listings, Card(card.title, card.price))
                   ELSE current_listings)

\* the listings run_tracker holds after the try block of one store; reached
\* is the prefix of the page's cards handled before an exception, if any.
\* An exception before the loop (get_or_create_page, goto, content, the
\* query for the cards) is the empty prefix.  On the JSON path the exception
\* is caught inside parse_komplett_json, which returns the listings so far.
ScrapeListings(store, reached) ==
  IF scrape_method(store) = "json"
  THEN parse_komplett_json(reached, title_filter(store))
  ELSE DomLoop(reached, title_filter(store), {}, <<>>)

(***************************************************************************)
(* The snapshot file and the database.                                     *)
(***************************************************************************)
EmptyDict == <<>>

FileAbsent    == [kind |-> "absent", content |-> EmptyDict]
FileTruncated == [kind |-> "truncated", content |-> EmptyDict]
FileOf(database) == [kind |-> "json", content |-> database]

\* what json.load returns for a file that holds the JSON text "[]": a Python
\* list.  Python values that are not dicts are kept as a record naming their
\* type, so that "store not in db" can be asked of them as Python does
\* (the store is not an element of the list).
JsonList == [py_type |-> "list"]

\* the value has the methods of a dict (get, keys, item assignment)
IsDict(value) == "py_type" \notin DOMAIN value

\* the file exists and open(DB_FILE, "r") raises (no permission, a directory)
FileUnreadable == [kind |-> "unreadable", content |-> EmptyDict]

\* the file holds well-formed JSON that is not a store-to-snapshot mapping
FileNotDatabase == [kind |-> "json", content |-> JsonList]

\* the files a first pass may find that hold no Database
FileInputs == {FileAbsent, FileUnreadable, FileTruncated, FileNotDatabase}

\* run_tracker's load: db = {} unless the file exists and json.load succeeds
LoadDb(file) == IF file.kind = "json" THEN file.content ELSE EmptyDict

\* db.get(store, {})
PrevStoreData(database, store) ==
  IF store \in DOMAIN database THEN database[store] ELSE EmptyDict

\* the index of the last listing with this title (a later dict store wins)
LastIndex(listings, title) ==
  CHOOSE i \in DOMAIN listings :
    /\ listings[i].title = title
    /\ \A j \in DOMAIN listings : listings[j].title = title => j <= i

\* NewStoreData with a slip: first_seen is not carried forward
NewStoreData_Fresh(current_listings, prev_store_data, time) ==
  [title \in TitlesOf(current_listings) |->
     [price |-> current_listings[LastIndex(current_listings, title)].price,
      first_seen |-> time]]

\* run_tracker: new_store_data built from current_listings
NewStoreData(current_listings, prev_store_data, time) ==
  [title \in TitlesOf(current_listings) |->
     [price |-> current_listings[LastIndex(current_listings, title)].price,
      first_seen |->
        IF title \in DOMAIN prev_store_data
             /\ "first_seen" \in DOMAIN prev_store_data[title]
        THEN prev_store_data[title].first_seen
        ELSE time]]

\* db[store] = new_store_data
SetStore(database, store, new_store_data) ==
  [s \in DOMAIN database \cup {store} |->
     IF s = store THEN new_store_data ELSE database[s]]

(***************************************************************************)
(* Notification.                                                           *)
(***************************************************************************)
\* build_table_embed(info, current_listings, prev_store_data, changes,
\* is_first_run): the embed is kept as the arguments that determine it
build_table_embed(store, current_listings, changes, is_first_run) ==
  [store |-> store, listings |-> current_listings, changes |-> changes,
   first_run |-> is_first_run]

NotCalled == [called |-> FALSE, result |-> "none", embeds |-> <<>>, mention |-> FALSE]

\* send_summary(webhook_url, embeds, has_urgent_changes, is_first_run);
\* webhook_set is whether DISCORD_WEBHOOK is set, post_ok whether
\* requests.post and raise_for_status went through
send_summary(webhook_set, post_ok, embeds, has_urgent_changes, is_first_run) ==
  IF ~webhook_set
  THEN [called |-> TRUE, result |-> "no_webhook", embeds |-> <<>>, mention |-> FALSE]
  ELSE [called |-> TRUE,
        result |-> IF post_ok THEN "delivered" ELSE "failed",
        embeds |-> embeds,
        mention |-> has_urgent_changes /\ ~is_first_run]

(***************************************************************************)
(* run_tracker, one action per step.                                       *)
(***************************************************************************)
\* SendAfter with a slip: a first run does not ask for the batch
SendAfter_ChangesOnly(send, first_run, changes) ==
  IF changes # <<>> THEN TRUE ELSE send

\* run_tracker: send_this_run after the body of one store
SendAfter(send, first_run, changes) ==
  IF first_run THEN TRUE
  ELSE IF changes # <<>> THEN TRUE
  ELSE send

\* UrgentAfter with a slip: the changes of a first run count too
UrgentAfter_AnyRun(urgent, first_run, changes) ==
  IF \E i \in DOMAIN changes : changes[i].type \in {"new", "price_drop"}
  THEN TRUE ELSE urgent

\* run_tracker: has_urgent_change after the body of one store
UrgentAfter(urgent, first_run, changes) ==
  IF first_run THEN urgent
  ELSE IF changes # <<>>
       THEN IF \E i \in DOMAIN changes : changes[i].type \in {"new", "price_drop"}
            THEN TRUE ELSE urgent
       ELSE urgent

\* nothing noted yet
NoScrape == [pass |-> 0, listings |-> <<>>]

\* the locals of run_tracker when no pass is under way
NoLocals ==
  /\ db' = EmptyDict
  /\ store_i' = 0
  /\ all_embeds' = <<>>
  /\ has_urgent_change' = FALSE
  /\ send_this_run' = FALSE
  /\ loaded' = EmptyDict
  /\ failed' = {}

RunInit ==
  /\ disk = FileAbsent
  /\ committed = EmptyDict
  /\ pc = "idle"
  /\ now = 1
  /\ posted = NotCalled
  /\ writes = 0
  /\ db = EmptyDict
  /\ store_i = 0
  /\ all_embeds = <<>>
  /\ has_urgent_change = FALSE
  /\ send_this_run = FALSE
  /\ loaded = EmptyDict
  /\ failed = {}
  /\ last_scrape = NoScrape

\* run_tracker is entered: the file is loaded, the locals are set
StartRun ==
  /\ pc = "idle"
  /\ now <= MaxRuns
  /\ db' = LoadDb(disk)
  /\ loaded' = LoadDb(disk)
  /\ all_embeds' = <<>>
  /\ has_urgent_change' = FALSE
  /\ send_this_run' = FALSE
  /\ failed' = {}
  /\ posted' = NotCalled
  /\ writes' = 0
  /\ store_i' = 1
  /\ pc' = "stores"
  /\ UNCHANGED <<disk, committed, now, last_scrape, dc_vars>>

\* one iteration of "for store, info in STORES.items()": the scrape, with an
\* exception at any point of it, then the detector, the embed, the flags and
\* the store's new snapshot
StoreStep ==
  /\ pc = "stores"
  /\ store_i \in DOMAIN STORES
  /\ IsDict(db)
  /\ LET store     == STORES[store_i]
         first_run == store \notin DOMAIN db
     IN  \E page \in RunPages, raises \in BOOLEAN :
         \E k \in 0..Len(page) :
           /\ raises => (k < Len(page) \/ k = 0) /\ Cardinality(failed) < MaxFailures
           /\ ~raises => k = Len(page)
           /\ LET current_listings == ScrapeListings(store, SubSeq(page, 1, k))
                  prev_store_data  == PrevStoreData(db, store)
              IN  \E gone_order \in GoneOrders(current_listings, prev_store_data) :
                    LET changes == detect_changes(current_listings, prev_store_data,
                                                  gone_order)
                    IN  /\ all_embeds' =
                             Append(all_embeds,
                                    build_table_embed(store, current_listings, changes,
                                                      first_run))
                        /\ send_this_run' = SendAfter(send_this_run, first_run, changes)
                        /\ has_urgent_change' =
                             UrgentAfter(has_urgent_change, first_run, changes)
                        /\ db' = SetStore(db, store,
                                          NewStoreData(current_listings, prev_store_data,
                                                       now))
           /\ failed' = IF raises THEN failed \cup {STORES[store_i]} ELSE failed
  /\ store_i' = store_i + 1
  /\ pc' = IF store_i = Len(STORES) THEN "notify" ELSE "stores"
  /\ UNCHANGED <<disk, committed, now, posted, writes, loaded, last_scrape, dc_vars>>

\* one iteration of the loop with a db that is not a dict: "store not in db"
\* and the scrape go through, then "db.get(store, {})" raises AttributeError
\* outside every try block; the exception leaves run_tracker and the
\* "while True" loop of the main program, and the process ends
StoreRaises ==
  /\ pc = "stores"
  /\ store_i \in DOMAIN STORES
  /\ ~IsDict(db)
  /\ pc' = "crashed"
  /\ NoLocals
  /\ UNCHANGED <<disk, committed, now, posted, writes, last_scrape, dc_vars>>

\* "if all_embeds: if not SILENT_IF_NO_CHANGES or send_this_run: send_summary"
Notify ==
  /\ pc = "notify"
  /\ IF all_embeds # <<>> /\ (~SILENT_IF_NO_CHANGES \/ send_this_run)
     THEN \E webhook_set, post_ok \in BOOLEAN :
            posted' = send_summary(webhook_set, post_ok, all_embeds,
                                   has_urgent_change, FALSE)
     ELSE posted' = NotCalled
  /\ pc' = "save"
  /\ UNCHANGED <<disk, committed, db, store_i, all_embeds, has_urgent_change,
                 send_this_run, now, writes, loaded, failed, last_scrape, dc_vars>>

\* "with open(DB_FILE, 'w') as f: json.dump(db, f)", then run_tracker returns
\* and the process sleeps CHECK_INTERVAL seconds.  The clock is advanced here:
\* the times read by a pass that is killed are written nowhere, so that only
\* the passes that save need a time of their own.
SaveDb ==
  /\ pc = "save"
  /\ disk' = FileOf(db)
  /\ committed' = db
  /\ writes' = writes + 1
  /\ now' = now + 1
  /\ pc' = "idle"
  /\ NoLocals
  /\ UNCHANGED <<posted, last_scrape, dc_vars>>

\* an observer notes what the pass scraped, store by store in STORES order,
\* at the point where the pass has only its save left
Observe ==
  /\ pc = "save"
  /\ last_scrape' = [pass |-> now,
                     listings |-> [i \in DOMAIN all_embeds |-> all_embeds[i].listings]]
  /\ UNCHANGED <<disk, committed, db, pc, store_i, all_embeds, has_urgent_change,
                 send_this_run, now, posted, writes, loaded, failed, dc_vars>>

\* the process is killed during a pass, before DB_FILE is opened for writing
Kill ==
  /\ pc \in {"stores", "notify", "save"}
  /\ pc' = "idle"
  /\ NoLocals
  /\ UNCHANGED <<disk, committed, now, posted, writes, last_scrape, dc_vars>>

\* the process is killed after open(DB_FILE, "w") has truncated the file and
\* before json.dump has written all of it
KillInSave ==
  /\ pc = "save"
  /\ disk' = FileTruncated
  /\ writes' = writes + 1
  /\ pc' = "idle"
  /\ NoLocals
  /\ UNCHANGED <<committed, now, posted, last_scrape, dc_vars>>

(***************************************************************************)
(* Specifications.                                                         *)
(***************************************************************************)
Init == RunInit /\ DetectOff

\* the process left alone
Next == StartRun \/ StoreStep \/ Notify \/ SaveDb

Spec == Init /\ [][Next]_vars

\* the process, killed from outside at any point and started again
NextKill == StartRun \/ StoreStep \/ Notify \/ SaveDb \/ Kill \/ KillInSave

SpecKill == Init /\ [][NextKill]_vars

\* the process started on a file that holds no Database
InitFile ==
  /\ disk \in FileInputs
  /\ committed = EmptyDict
  /\ pc = "idle"
  /\ now = 1
  /\ posted = NotCalled
  /\ writes = 0
  /\ db = EmptyDict
  /\ store_i = 0
  /\ all_embeds = <<>>
  /\ has_urgent_change = FALSE
  /\ send_this_run = FALSE
  /\ loaded = EmptyDict
  /\ failed = {}
  /\ last_scrape = NoScrape
  /\ DetectOff

NextFile == StartRun \/ StoreStep \/ StoreRaises \/ Notify \/ SaveDb

SpecFile == InitFile /\ [][NextFile]_vars

\* the process left alone, each pass observed or not
NextRepeat == StartRun \/ StoreStep \/ Notify \/ Observe \/ SaveDb

SpecRepeat == Init /\ [][NextRepeat]_vars

InitDetect ==
  /\ RunInit
  /\ dc_current \in DetectCurrentInputs
  /\ dc_previous \in DetectPrevInputs
  /\ dc_changes = <<>>
  /\ dc_pc = "call"

NextDetect == DetectCall

SpecDetect == InitDetect /\ [][NextDetect]_vars

(***************************************************************************)
(* Properties of detect_changes (SpecDetect).                              *)
(***************************************************************************)
UniqueTitles(listings) ==
  \A i, j \in DOMAIN listings : i # j => listings[i].title # listings[j].title

\* the records of a change list that carry a title
RecordsFor(changes, title) == {i \in DOMAIN changes : changes[i].title = title}

\* a price that does not normalise: missing, or without a digit
NoDigits(price) == price = None \/ \A i \in DOMAIN price : price[i] \notin Digits

\* the change record the specification asks for one listing, as a set
ExpectedFor(item, previous) ==
  IF item.title \notin DOMAIN previous
  THEN {[type |-> "new", title |-> item.title, price |-> item.price]}
  ELSE IF \/ "price" \notin DOMAIN previous[item.title]
          \/ NoDigits(previous[item.title].price)
          \/ NoDigits(item.price)
  THEN {}
  ELSE LET old == previous[item.title].price
       IN  IF parse_price_value(item.price) < parse_price_value(old)
           THEN {[type |-> "price_drop", title |-> item.title,
                  old_price |-> old, new_price |-> item.price]}
           ELSE IF parse_price_value(item.price) > parse_price_value(old)
           THEN {[type |-> "price_up", title |-> item.title,
                  old_price |-> old, new_price |-> item.price]}
           ELSE {}

PositionOf(listings, title) == CHOOSE i \in DOMAIN listings : listings[i].title = title

\* C2: with unique titles in current, detect_changes emits for each listing at
\* most one record for its title, in scrape order: new(title, price) iff the
\* title is not in previous, price_drop(title, old, new) iff both prices
\* normalise and new < old, price_up iff both normalise and new > old; the
\* two examples of the specification give exactly one record each.
C2_DetectRecords ==
  (dc_pc = "done" /\ UniqueTitles(dc_current)) =>
    /\ \A k \in DOMAIN dc_current :
         /\ Cardinality(RecordsFor(dc_changes, dc_current[k].title)) <= 1
         /\ {dc_changes[i] : i \in RecordsFor(dc_changes, dc_current[k].title)}
              = ExpectedFor(dc_current[k], dc_previous)
    /\ \A i, j \in DOMAIN dc_changes :
         (/\ i < j
          /\ dc_changes[i].title \in TitlesOf(dc_current)
          /\ dc_changes[j].title \in TitlesOf(dc_current))
         => PositionOf(dc_current, dc_changes[i].title)
              < PositionOf(dc_current, dc_changes[j].title)
    /\ (/\ dc_current = <<Card("X", Str900)>>
        /\ dc_previous = [t \in {"X"} |-> [price |-> Str1000, first_seen |-> 1]])
       => dc_changes = << [type |-> "price_drop", title |-> "X",
                           old_price |-> Str1000, new_price |-> Str900] >>
    /\ (dc_current = <<Card("Y", Str500)>> /\ dc_previous = EmptyDict)
       => dc_changes = << [type |-> "new", title |-> "Y", price |-> Str500] >>

C2_Witness ==
  /\ dc_pc = "done"
  /\ dc_current = <<Card("X", Str900)>>
  /\ dc_previous = [t \in {"X"} |-> [price |-> Str1000, first_seen |-> 1]]
  /\ Len(dc_changes) = 1
  /\ dc_changes[1].type = "price_drop"

\* a listing whose price, set against the previous record of its title, is no
\* change: equal values, or no value on one side
QuietListing(item, previous) ==
  \/ NoDigits(item.price)
  \/ "price" \notin DOMAIN previous[item.title]
  \/ NoDigits(previous[item.title].price)
  \/ parse_price_value(item.price) = parse_price_value(previous[item.title].price)

\* C3: for a title in both current and previous, detect_changes emits no
\* record for the title when the normalised prices are equal or a price fails
\* to normalise on either side (missing, without digits, or a previous record
\* without a price key).
C3_NoRecordWhenUnchanged ==
  dc_pc = "done" =>
    \A t \in TitlesOf(dc_current) \cap DOMAIN dc_previous :
      (\A k \in DOMAIN dc_current :
         dc_current[k].title = t => QuietListing(dc_current[k], dc_previous))
      => RecordsFor(dc_changes, t) = {}

C3_Witness ==
  /\ dc_pc = "done"
  /\ \E k \in DOMAIN dc_current :
       /\ dc_current[k].title \in DOMAIN dc_previous
       /\ "price" \notin DOMAIN dc_previous[dc_current[k].title]
       /\ ~NoDigits(dc_current[k].price)
       /\ RecordsFor(dc_changes, dc_current[k].title) = {}
  /\ \E k \in DOMAIN dc_current :
       /\ dc_current[k].title \in DOMAIN dc_previous
       /\ dc_current[k].price = None
       /\ "price" \in DOMAIN dc_previous[dc_current[k].title]
       /\ ~NoDigits(dc_previous[dc_current[k].title].price)
       /\ RecordsFor(dc_changes, dc_current[k].title) = {}

\* C4: every title of previous that is not in current gets exactly one gone
\* record and no record of another kind; no title of current gets a gone
\* record; an empty current gives one gone record per previous title and
\* nothing else.
C4_GoneComplete ==
  dc_pc = "done" =>
    /\ \A t \in DOMAIN dc_previous \ TitlesOf(dc_current) :
         /\ Cardinality(RecordsFor(dc_changes, t)) = 1
         /\ \A i \in RecordsFor(dc_changes, t) :
              dc_changes[i] = [type |-> "gone", title |-> t]
    /\ \A i \in DOMAIN dc_changes :
         dc_changes[i].type = "gone" => dc_changes[i].title \notin TitlesOf(dc_current)
    /\ dc_current = <<>> =>
         /\ Len(dc_changes) = Cardinality(DOMAIN dc_previous)
         /\ \A i \in DOMAIN dc_changes : dc_changes[i].type = "gone"

C4_Witness ==
  /\ dc_pc = "done"
  /\ dc_current = <<>>
  /\ DOMAIN dc_previous = {"X", "Y"}
  /\ Len(dc_changes) = 2
  /\ dc_changes[1].title # dc_changes[2].title

(***************************************************************************)
(* Properties of run_tracker (Spec, SpecKill).                             *)
(***************************************************************************)
\* a pass is under way; all_embeds[i] is the embed of STORES[i]
InPass == pc \in {"stores", "notify", "save"}

\* first_run of a store in the pass under way
FirstRun(store) == store \notin DOMAIN loaded

\* the store's snapshot at the start of the pass under way
Previous(store) == PrevStoreData(loaded, store)

\* C1: once a store is processed, db[store] has one entry per title of the
\* store's scrape and no other title, each with a price scraped for the
\* title; first_seen is the previous record's for a title of the previous
\* snapshot and the time of this pass for any other title.
C1_SnapshotAfterStore ==
  InPass =>
    \A i \in DOMAIN all_embeds :
      LET store    == STORES[i]
          listings == all_embeds[i].listings
      IN  /\ store \in DOMAIN db
          /\ DOMAIN db[store] = TitlesOf(listings)
          /\ \A t \in DOMAIN db[store] :
               /\ db[store][t].price
                    \in {listings[k].price : k \in {j \in DOMAIN listings : listings[j].title = t}}
               /\ t \in DOMAIN Previous(store)
                    => db[store][t].first_seen = Previous(store)[t].first_seen
               /\ t \notin DOMAIN Previous(store)
                    => db[store][t].first_seen = now

C1_Witness ==
  /\ InPass
  /\ \E i \in DOMAIN all_embeds :
       \E t \in DOMAIN db[STORES[i]] :
         /\ t \in DOMAIN Previous(STORES[i])
         /\ db[STORES[i]][t].first_seen < now
         /\ db[STORES[i]][t].price # Previous(STORES[i])[t].price
  /\ \E i \in DOMAIN all_embeds :
       \E t \in DOMAIN db[STORES[i]] :
         /\ ~FirstRun(STORES[i])
         /\ t \notin DOMAIN Previous(STORES[i])
         /\ db[STORES[i]][t].first_seen = now

\* some store of the pass warrants a notification
Warranted ==
  \E i \in DOMAIN all_embeds :
    FirstRun(STORES[i]) \/ all_embeds[i].changes # <<>>

\* C5: with the silent toggle on, the batch is handed to send_summary iff
\* some store is on its first run or has a change; a batch that is posted
\* holds one summary per configured store, in the order of STORES.
C5_BatchSentIffWarranted ==
  pc = "save" =>
    /\ posted.called <=> Warranted
    /\ posted.result \in {"delivered", "failed"} =>
         /\ Len(posted.embeds) = Len(STORES)
         /\ \A i \in DOMAIN STORES :
              /\ posted.embeds[i].store = STORES[i]
              /\ posted.embeds[i] = all_embeds[i]

C5_Witness ==
  /\ pc = "save"
  /\ posted.result = "delivered"
  /\ \A i \in DOMAIN all_embeds :
       FirstRun(STORES[i]) /\ all_embeds[i].changes = <<>>

\* C6: at the end of the loop has_urgent_change is true iff a store that is
\* not on its first run has a change of kind new or price_drop; the posted
\* payload carries the mention exactly then.
C6_UrgentFlag ==
  pc \in {"notify", "save"} =>
    /\ has_urgent_change <=>
         \E i \in DOMAIN all_embeds :
           /\ ~FirstRun(STORES[i])
           /\ \E k \in DOMAIN all_embeds[i].changes :
                all_embeds[i].changes[k].type \in {"new", "price_drop"}
    /\ (pc = "save" /\ posted.result \in {"delivered", "failed"})
         => (posted.mention <=> has_urgent_change)

C6_Witness ==
  /\ pc = "save"
  /\ has_urgent_change
  /\ posted.result = "delivered"
  /\ posted.mention
  /\ \E i \in DOMAIN all_embeds :
       \E k \in DOMAIN all_embeds[i].changes :
         all_embeds[i].changes[k].type = "price_drop"

\* C7, as claimed: at every point of a pass before DB_FILE is written, the
\* file read back is the database as the last pass that ran to its end left
\* it, and a pass opens the file for writing at most once.
C7_FileIsLastCompletedRun ==
  /\ writes <= 1
  /\ (InPass /\ writes = 0) => LoadDb(disk) = committed

\* C8, as claimed: a store whose scrape raised has an empty listing list, one
\* gone record per title of its previous snapshot and an empty new snapshot.
C8_FailedScrapeIsEmpty ==
  InPass =>
    \A i \in DOMAIN all_embeds :
      STORES[i] \in failed =>
        /\ all_embeds[i].listings = <<>>
        /\ Len(all_embeds[i].changes) = Cardinality(DOMAIN Previous(STORES[i]))
        /\ \A k \in DOMAIN all_embeds[i].changes :
             all_embeds[i].changes[k].type = "gone"
        /\ DOMAIN db[STORES[i]] = {}

\* C9, as claimed: the listings of every store have pairwise different
\* titles, so no title has two change records and the listings are as many
\* as the entries of the store's new snapshot.
C9_ListingsHaveUniqueTitles ==
  InPass =>
    \A i \in DOMAIN all_embeds :
      /\ UniqueTitles(all_embeds[i].listings)
      /\ \A k \in DOMAIN all_embeds[i].changes :
           Cardinality(RecordsFor(all_embeds[i].changes,
                                  all_embeds[i].changes[k].title)) = 1
      /\ Len(all_embeds[i].listings) = Cardinality(DOMAIN db[STORES[i]])

\* C10, as claimed: a store on its first run has no change records.
C10_FirstRunHasNoChanges ==
  InPass =>
    \A i \in DOMAIN all_embeds :
      FirstRun(STORES[i]) => all_embeds[i].changes = <<>>

\* C10, amended: a store on its first run has exactly one new record per
\* scraped listing, in scrape order, and no record of another kind.
C10_FirstRunAllNew ==
  InPass =>
    \A i \in DOMAIN all_embeds :
      FirstRun(STORES[i]) =>
        all_embeds[i].changes =
          [k \in DOMAIN all_embeds[i].listings |->
             [type |-> "new", title |-> all_embeds[i].listings[k].title,
              price |-> all_embeds[i].listings[k].price]]

C10_Witness ==
  /\ InPass
  /\ \E i \in DOMAIN all_embeds :
       /\ FirstRun(STORES[i])
       /\ Len(all_embeds[i].listings) >= 1
       /\ Len(all_embeds[i].changes) = Len(all_embeds[i].listings)
       /\ all_embeds[i].changes[1].type = "new"

(***************************************************************************)
(* C11.  Loading the Database never fails the run (SpecFile).              *)
(***************************************************************************)
\* the file holds a Database: json.load succeeds and returns a mapping
HoldsDatabase(file) == file.kind = "json" /\ IsDict(file.content)

\* C11: the process never ends on an exception, and a pass that found a
\* file holding no Database (missing, unreadable, truncated, or JSON of
\* another shape) starts from a Database that knows no store and takes every
\* store it has handled as being on its first run.  In SpecFile the file is
\* written by SaveDb only, so that during a pass it is the file the pass
\* loaded.
C11_LoadNeverFailsRun ==
  /\ pc # "crashed"
  /\ (InPass /\ ~HoldsDatabase(disk)) =>
       /\ \A i \in DOMAIN STORES : FirstRun(STORES[i])
       /\ \A i \in DOMAIN all_embeds : all_embeds[i].first_run

(***************************************************************************)
(* C12.  A repeated scrape is quiet (SpecRepeat).                          *)
(***************************************************************************)
\* the pass has handled every store, the pass before it ran to its save and
\* was noted, and this pass scraped for every store the listings that one
\* scraped
SameScrape ==
  /\ pc \in {"notify", "save"}
  /\ now > 1
  /\ last_scrape.pass = now - 1
  /\ \A i \in DOMAIN all_embeds : all_embeds[i].listings = last_scrape.listings[i]

\* C12: a pass that scraped what the completed pass before it scraped has no
\* change record for any store, asks for no notification and calls
\* send_summary not at all, and its Database has the titles and first_seen
\* values of the Database it loaded.
C12_RepeatedScrapeIsQuiet ==
  SameScrape =>
    /\ \A i \in DOMAIN all_embeds : all_embeds[i].changes = <<>>
    /\ ~send_this_run
    /\ pc = "save" => ~posted.called
    /\ \A i \in DOMAIN STORES :
         LET store == STORES[i]
         IN  /\ store \in DOMAIN loaded
             /\ DOMAIN db[store] = DOMAIN loaded[store]
             /\ \A title \in DOMAIN db[store] :
                  db[store][title].first_seen = loaded[store][title].first_seen

=============================================================================
